---- MODULE Spec2Model ----
(***************************************************************************)
(* Model of the satonic-api auction engine: AuctionService (Create,        *)
(* PlaceBid, FinalizeAuction, ProcessEndedAuctions) running on top of the  *)
(* AuctionRepository transactions (Create, CreateBid, CompleteAuction).    *)
(*                                                                         *)
(* The store is PostgreSQL reached through database/sql with the default   *)
(* isolation level (READ COMMITTED): a statement of a transaction reads    *)
(* the rows committed at the time the statement runs, and the writes of a  *)
(* transaction become visible to the others at its commit.  The variables  *)
(* auctions, nfts and bids hold the committed rows; the rows a transaction *)
(* has written but not yet committed live in the local state of the task   *)
(* that runs it.                                                           *)
(***************************************************************************)
EXTENDS Integers, Sequences, FiniteSets, TLC

----------------------------------------------------------------------------
(* Bounds of the model *)

MaxTime == 2        \* the clock runs over 0..MaxTime
MaxAuctions == 1    \* Spec: at most this many auction rows are created
MaxListings == 2    \* SpecCreate: at most this many auction rows are created
MaxBids == 2        \* at most this many bid rows are committed
SendCap == 1        \* capacity of a session's outbound channel in the model

----------------------------------------------------------------------------
(* Values of the program *)

Null == -1          \* a nil *int64 / NULL column / an id that names nothing
NoUser == "nil"     \* a nil *string (current_bidder_id IS NULL)

AuctionStatusDraft == "draft"
AuctionStatusActive == "active"
AuctionStatusCompleted == "completed"
AuctionStatusCancelled == "cancelled"

\* The error values the service returns (fmt.Errorf messages), and the
\* repository error of a failed statement or commit.
ErrAlreadyListed == "NFT is already on auction"
ErrNotOwner == "NFT is not owned by the user"
ErrNotFound == "auction not found"
ErrNotActive == "auction is not active"
ErrNotStarted == "auction has not started yet"
ErrEnded == "auction has ended"
ErrBidNotHigher == "bid amount must be higher than current bid"
ErrBelowStart == "bid amount must be at least the start price"
ErrWallet == "wallet not found or not owned by user"
ErrBalance == "insufficient balance"
ErrNotEnded == "auction has not ended yet"
ErrNotWinner == "only the winning bidder can finalize the auction"
ErrStorage == "storage error"
OK == "ok"

\* The two messages the error taxonomy calls BidTooLow.
BidTooLow == {ErrBidNotHigher, ErrBelowStart}

\* Client.userID of a session without authenticated identity.
NoIdentity == ""

\* The panics and fatal errors of the Go runtime that end the process.
NoPanic == "none"
PanicSendOnClosed == "send on closed channel"
PanicCloseOfClosed == "close of closed channel"
FatalMapRace == "concurrent map access"

\* WalletService.GetBalance is a placeholder that returns this for any address.
GetBalance(address) == 10000000

----------------------------------------------------------------------------
(* The fixed rows of the users, wallets and nfts tables, and the inputs *)

Procs == {"t1", "t2"}                      \* concurrent request tasks
TaskUser == [t1 |-> "u1", t2 |-> "u2"]     \* the identity of each session
Users == {"u1", "u2"}
Wallets == {"w1", "w2"}
WalletUserID == [w1 |-> "u1", w2 |-> "u2"] \* wallets.user_id
NFTs == {"n1", "n2"}
NFTWalletID == [n1 |-> "w1", n2 |-> "w1"]  \* nfts.wallet_id

Amounts == {1, 2, 3, GetBalance("any") + 1}

\* The CreateAuctionRequest bodies the sellers send to list the first NFT.
CreateAuctionRequests ==
    {[NFTID |-> "n1", StartPrice |-> 2, ReservePrice |-> pr, BuyNowPrice |-> pr,
      StartTime |-> st, EndTime |-> 1] : pr \in {Null, 3}, st \in {0, 1}}

\* The CreateAuctionRequest bodies of the sweep scenario: either NFT, listed
\* at once without reserve, ending at one of two times.
SweepRequests ==
    {[NFTID |-> n, StartPrice |-> 2, ReservePrice |-> Null, BuyNowPrice |-> Null,
      StartTime |-> 0, EndTime |-> e] : n \in NFTs, e \in {1, 2}}

\* The PlaceBidRequest bodies the bidders send; an AuctionID beyond the
\* rows created so far names no auction.
PlaceBidRequests ==
    [AuctionID : 1..(MaxAuctions + 1), Amount : Amounts, WalletID : Wallets]

----------------------------------------------------------------------------
(* State *)

VARIABLES
    now,        \* time.Now()
    auctions,   \* committed rows of table auctions; the id is the index
    nfts,       \* committed nfts.auction_id, per NFT
    bids,       \* committed rows of table bids, in commit order
    pc,         \* where each request task is in its handler
    local,      \* the local variables of each request task
    res,        \* the result the service call of each task has returned,
                \* until the handler has written the response
    reaper,     \* the auctions ProcessEndedAuctions has still to look at,
                \* as read by GetEndedAuctions; <<>> between sweeps
    conn,       \* the websocket connection of each session: none, open, closed
    clientUserID,   \* Client.userID of each session
    writePump,  \* where the writePump goroutine of each session is
    clients,    \* Hub.clients
    auctionClients, \* Hub.auctionClients: auction id -> set of sessions
    send,       \* Client.send of each session: buffered messages, closed flag
    hubLoop,    \* the clients the broadcast loop of Hub.Run has still to visit
    panicked    \* the panic or fatal error that has ended the process, if any

\* The state of the hub and of the websocket sessions.
hubVars == <<conn, clientUserID, writePump, clients, auctionClients, send,
             hubLoop, panicked>>

vars == <<now, auctions, nfts, bids, pc, local, res, reaper, conn,
          clientUserID, writePump, clients, auctionClients, send, hubLoop,
          panicked>>

NoLocal == [op |-> "none"]
NoRes == [op |-> "none", auction |-> Null, out |-> OK]

Init ==
    /\ now = 0
    /\ auctions = <<>>
    /\ nfts = [n \in NFTs |-> Null]
    /\ bids = <<>>
    /\ pc = [p \in Procs |-> "idle"]
    /\ local = [p \in Procs |-> NoLocal]
    /\ res = [p \in Procs |-> NoRes]
    /\ reaper = <<>>
    /\ conn = [p \in Procs |-> "none"]
    /\ clientUserID = [p \in Procs |-> NoIdentity]
    /\ writePump = [p \in Procs |-> "none"]
    /\ clients = {}
    /\ auctionClients = [a \in 1..MaxAuctions |-> [has |-> FALSE,
                                                          members |-> {}]]
    /\ send = [p \in Procs |-> [q |-> <<>>, closed |-> FALSE]]
    /\ hubLoop = {}
    /\ panicked = NoPanic

----------------------------------------------------------------------------
(* Helpers *)

Max(a, b) == IF a >= b THEN a ELSE b

AuctionIDs == 1..Len(auctions)

\* userRepo.GetWalletsByUserID followed by the loop that looks for walletID.
OwnsWallet(userID, walletID) == WalletUserID[walletID] = userID

\* A service call on auction auctionID returns `out` (an error, ok, or the
\* status of the finalized auction) to its caller.
Return(p, op, auctionID, out) ==
    /\ pc' = [pc EXCEPT ![p] = "done"]
    /\ local' = [local EXCEPT ![p] = NoLocal]
    /\ res' = [res EXCEPT ![p] = [op |-> op, auction |-> auctionID,
                                  out |-> out]]

\* The handler has written the response; the task takes the next request.
Respond(p) ==
    /\ pc[p] = "done"
    /\ pc' = [pc EXCEPT ![p] = "idle"]
    /\ res' = [res EXCEPT ![p] = NoRes]
    /\ UNCHANGED <<now, auctions, nfts, bids, local, reaper>>
    /\ UNCHANGED hubVars

\* The clock advances.
Tick ==
    /\ now < MaxTime
    /\ now' = now + 1
    /\ UNCHANGED <<auctions, nfts, bids, pc, local, res, reaper>>
    /\ UNCHANGED hubVars

----------------------------------------------------------------------------
(* AuctionService.Create and the AuctionRepository.Create transaction *)

\* CreateError without the check of the NFT's auction reference.
CreateErrorNoListedCheck(req, userID) ==
    IF ~OwnsWallet(userID, NFTWalletID[req.NFTID]) THEN ErrNotOwner
    ELSE OK

\* The checks of AuctionService.Create on the NFT row it has just read.
CreateError(req, userID) ==
    IF nfts[req.NFTID] # Null THEN ErrAlreadyListed
    ELSE IF ~OwnsWallet(userID, NFTWalletID[req.NFTID]) THEN ErrNotOwner
    ELSE OK

\* CreateStatus with a strict comparison: active only when StartTime is
\* before time.Now().
CreateStatusStrict(req, t) ==
    IF t > req.StartTime THEN AuctionStatusActive ELSE AuctionStatusDraft

\* Status of the new auction: active unless StartTime is after time.Now().
CreateStatus(req, t) ==
    IF ~(req.StartTime > t) THEN AuctionStatusActive ELSE AuctionStatusDraft

\* The models.Auction value AuctionService.Create builds.
NewAuction(req, t) ==
    [NFTID |-> req.NFTID, SellerWalletID |-> NFTWalletID[req.NFTID],
     StartPrice |-> req.StartPrice, ReservePrice |-> req.ReservePrice,
     BuyNowPrice |-> req.BuyNowPrice, CurrentBid |-> Null,
     CurrentBidderID |-> NoUser, StartTime |-> req.StartTime,
     EndTime |-> req.EndTime, Status |-> CreateStatus(req, t)]

\* Number of request tasks inside the transaction named by the label.
InFlight(label) == Cardinality({q \in Procs : pc[q] = label})

\* AuctionService.Create: read the NFT, check it, build the auction.
Create(p, req, userID) ==
    /\ pc[p] = "idle"
    /\ LET err == CreateError(req, userID) IN
       IF err # OK
       THEN /\ Return(p, "Create", Null, err)
            /\ UNCHANGED <<now, auctions, nfts, bids, reaper>>
       ELSE /\ pc' = [pc EXCEPT ![p] = "create_tx"]
            /\ local' = [local EXCEPT ![p] =
                  [op |-> "Create", auction |-> NewAuction(req, now)]]
            /\ UNCHANGED <<now, auctions, nfts, bids, res, reaper>>
    /\ UNCHANGED hubVars

\* AuctionRepository.Create commits: the auction row is inserted under a
\* fresh id and the NFT row is stamped with it.
CreateCommit(p) ==
    /\ pc[p] = "create_tx"
    /\ LET id == Len(auctions) + 1
           a == local[p].auction IN
       /\ auctions' = Append(auctions, a)
       /\ nfts' = [nfts EXCEPT ![a.NFTID] = id]
       /\ Return(p, "Create", id, OK)
    /\ UNCHANGED <<now, bids, reaper>>
    /\ UNCHANGED hubVars

\* CreateFail without the rollback: the auction row inserted before the
\* failure stays.
CreateFailKeepsAuction(p) ==
    /\ pc[p] = "create_tx"
    /\ auctions' = Append(auctions, local[p].auction)
    /\ Return(p, "Create", Null, ErrStorage)
    /\ UNCHANGED <<now, nfts, bids, reaper>>
    /\ UNCHANGED hubVars

\* A statement or the commit of AuctionRepository.Create fails: rollback.
CreateFail(p) ==
    /\ pc[p] = "create_tx"
    /\ Return(p, "Create", Null, ErrStorage)
    /\ UNCHANGED <<now, auctions, nfts, bids, reaper>>
    /\ UNCHANGED hubVars

----------------------------------------------------------------------------
(* AuctionService.PlaceBid and the AuctionRepository.CreateBid transaction *)

\* PlaceBidError with the comparison against the current bid off by one: a
\* bid equal to the current bid passes.
PlaceBidErrorEqualPasses(auction, req, userID, t) ==
    IF auction.Status # AuctionStatusActive THEN ErrNotActive
    ELSE IF t < auction.StartTime THEN ErrNotStarted
    ELSE IF t > auction.EndTime THEN ErrEnded
    ELSE IF auction.CurrentBid # Null /\ req.Amount < auction.CurrentBid
         THEN ErrBidNotHigher
    ELSE IF req.Amount < auction.StartPrice THEN ErrBelowStart
    ELSE IF ~OwnsWallet(userID, req.WalletID) THEN ErrWallet
    ELSE IF GetBalance(req.WalletID) < req.Amount THEN ErrBalance
    ELSE OK

\* PlaceBidError with the status check refusing only Draft auctions.
PlaceBidErrorDraftOnly(auction, req, userID, t) ==
    IF auction.Status = AuctionStatusDraft THEN ErrNotActive
    ELSE IF t < auction.StartTime THEN ErrNotStarted
    ELSE IF t > auction.EndTime THEN ErrEnded
    ELSE IF auction.CurrentBid # Null /\ req.Amount <= auction.CurrentBid
         THEN ErrBidNotHigher
    ELSE IF req.Amount < auction.StartPrice THEN ErrBelowStart
    ELSE IF ~OwnsWallet(userID, req.WalletID) THEN ErrWallet
    ELSE IF GetBalance(req.WalletID) < req.Amount THEN ErrBalance
    ELSE OK

\* The checks of AuctionService.PlaceBid on the auction row it has just
\* read, at time t, in the order of the code.
PlaceBidError(auction, req, userID, t) ==
    IF auction.Status # AuctionStatusActive THEN ErrNotActive
    ELSE IF t < auction.StartTime THEN ErrNotStarted
    ELSE IF t > auction.EndTime THEN ErrEnded
    ELSE IF auction.CurrentBid # Null /\ req.Amount <= auction.CurrentBid
         THEN ErrBidNotHigher
    ELSE IF req.Amount < auction.StartPrice THEN ErrBelowStart
    ELSE IF ~OwnsWallet(userID, req.WalletID) THEN ErrWallet
    ELSE IF GetBalance(req.WalletID) < req.Amount THEN ErrBalance
    ELSE OK

\* AuctionService.PlaceBid: read the auction, check it, build the bid.
PlaceBid(p, req, userID) ==
    /\ pc[p] = "idle"
    /\ LET err == IF req.AuctionID \notin AuctionIDs THEN ErrNotFound
                  ELSE PlaceBidError(auctions[req.AuctionID], req, userID, now)
       IN
       IF err # OK
       THEN /\ Return(p, "PlaceBid", req.AuctionID, err)
            /\ UNCHANGED <<now, auctions, nfts, bids, reaper>>
       ELSE /\ pc' = [pc EXCEPT ![p] = "bid_select"]
            /\ local' = [local EXCEPT ![p] =
                  [op |-> "PlaceBid",
                   bid |-> [AuctionID |-> req.AuctionID, BidderID |-> userID,
                            WalletID |-> req.WalletID, Amount |-> req.Amount,
                            Accepted |-> TRUE],
                   currentBid |-> Null]]
            /\ UNCHANGED <<now, auctions, nfts, bids, res, reaper>>
    /\ UNCHANGED hubVars

\* CreateBidSelect whose SELECT is not restricted to the bid's auction: it
\* reads the current_bid of the first auction row.
CreateBidSelectAnyAuction(p) ==
    /\ pc[p] = "bid_select"
    /\ pc' = [pc EXCEPT ![p] = "bid_update"]
    /\ local' = [local EXCEPT ![p].currentBid = auctions[1].CurrentBid]
    /\ UNCHANGED <<now, auctions, nfts, bids, res, reaper>>
    /\ UNCHANGED hubVars

\* CreateBid, first statements: INSERT INTO bids (not visible before the
\* commit) and SELECT current_bid, which reads the committed auction row.
CreateBidSelect(p) ==
    /\ pc[p] = "bid_select"
    /\ pc' = [pc EXCEPT ![p] = "bid_update"]
    /\ local' = [local EXCEPT ![p].currentBid =
                    auctions[local[p].bid.AuctionID].CurrentBid]
    /\ UNCHANGED <<now, auctions, nfts, bids, res, reaper>>
    /\ UNCHANGED hubVars

\* The test CreateBid makes on the current_bid it selected.
IsHighestBid(currentBid, amount) == currentBid = Null \/ amount > currentBid

\* CreateBidCommit whose UPDATE sets current_bid and leaves
\* current_bidder_id as it was.
CreateBidCommitAmountOnly(p) ==
    /\ pc[p] = "bid_update"
    /\ LET bid == local[p].bid IN
       /\ bids' = Append(bids, bid)
       /\ auctions' =
            IF IsHighestBid(local[p].currentBid, bid.Amount)
            THEN [auctions EXCEPT ![bid.AuctionID].CurrentBid = bid.Amount]
            ELSE auctions
       /\ Return(p, "PlaceBid", bid.AuctionID, OK)
    /\ UNCHANGED <<now, nfts, reaper>>
    /\ UNCHANGED hubVars

\* CreateBid, last statements: the conditional UPDATE of the auction row and
\* the commit, which makes the bid row and the update visible.
CreateBidCommit(p) ==
    /\ pc[p] = "bid_update"
    /\ LET bid == local[p].bid IN
       /\ bids' = Append(bids, bid)
       /\ auctions' =
            IF IsHighestBid(local[p].currentBid, bid.Amount)
            THEN [auctions EXCEPT ![bid.AuctionID].CurrentBid = bid.Amount,
                                  ![bid.AuctionID].CurrentBidderID = bid.BidderID]
            ELSE auctions
       /\ Return(p, "PlaceBid", bid.AuctionID, OK)
    /\ UNCHANGED <<now, nfts, reaper>>
    /\ UNCHANGED hubVars

\* CreateBidFail without rollback: the inserted bid row stays.
CreateBidFailKeepsBid(p) ==
    /\ pc[p] \in {"bid_select", "bid_update"}
    /\ bids' = Append(bids, local[p].bid)
    /\ Return(p, "PlaceBid", local[p].bid.AuctionID, ErrStorage)
    /\ UNCHANGED <<now, auctions, nfts, reaper>>
    /\ UNCHANGED hubVars

\* A statement or the commit of CreateBid fails: rollback.
CreateBidFail(p) ==
    /\ pc[p] \in {"bid_select", "bid_update"}
    /\ Return(p, "PlaceBid", local[p].bid.AuctionID, ErrStorage)
    /\ UNCHANGED <<now, auctions, nfts, bids, reaper>>
    /\ UNCHANGED hubVars

----------------------------------------------------------------------------
(* AuctionService.FinalizeAuction and AuctionRepository.CompleteAuction *)

\* BuyNowTriggered without the comparison: any bid on an auction that has a
\* buy-now price triggers it.
BuyNowTriggeredByAnyBid(auction) ==
    /\ auction.BuyNowPrice # Null
    /\ auction.CurrentBid # Null

\* BuyNowTriggered with a strict comparison: a bid of exactly the buy-now
\* price does not trigger it.
BuyNowTriggeredStrict(auction) ==
    /\ auction.BuyNowPrice # Null
    /\ auction.CurrentBid # Null
    /\ auction.CurrentBid > auction.BuyNowPrice

\* buyNowTriggered of FinalizeAuction.
BuyNowTriggered(auction) ==
    /\ auction.BuyNowPrice # Null
    /\ auction.CurrentBid # Null
    /\ auction.CurrentBid >= auction.BuyNowPrice

\* MustCancel without the test for a missing bid.
MustCancelReserveOnly(auction) ==
    auction.ReservePrice # Null /\ auction.CurrentBid < auction.ReservePrice

\* MustCancel without the test of the reserve price.
MustCancelNoBidOnly(auction) ==
    \/ auction.CurrentBid = Null
    \/ auction.CurrentBidderID = NoUser

\* The test FinalizeAuction and ProcessEndedAuctions make before cancelling:
\* there is no bid, or the reserve price is set and not met.
MustCancel(auction) ==
    \/ auction.CurrentBid = Null
    \/ auction.CurrentBidderID = NoUser
    \/ (auction.ReservePrice # Null /\ auction.CurrentBid < auction.ReservePrice)

\* FinalizeDecision without the check of the caller against the bidder.
FinalizeDecisionAnyCaller(auction, userID, t) ==
    IF auction.Status # AuctionStatusActive THEN ErrNotActive
    ELSE IF ~(t > auction.EndTime) /\ ~BuyNowTriggered(auction) THEN ErrNotEnded
    ELSE IF MustCancel(auction) THEN AuctionStatusCancelled
    ELSE AuctionStatusCompleted

\* What FinalizeAuction decides on the auction row it has just read, at
\* time t: an error, or the status it will pass to CompleteAuction.
FinalizeDecision(auction, userID, t) ==
    IF auction.Status # AuctionStatusActive THEN ErrNotActive
    ELSE IF ~(t > auction.EndTime) /\ ~BuyNowTriggered(auction) THEN ErrNotEnded
    ELSE IF MustCancel(auction) THEN AuctionStatusCancelled
    ELSE IF auction.CurrentBidderID # userID THEN ErrNotWinner
    ELSE AuctionStatusCompleted

\* CompleteAuction releasing the NFT whatever the status written is.
CompleteAuctionAlwaysReleases(auctionID, status) ==
    /\ auctions' = [auctions EXCEPT ![auctionID].Status = status]
    /\ nfts' = [n \in NFTs |-> IF nfts[n] = auctionID THEN Null ELSE nfts[n]]

\* The rows after the CompleteAuction transaction commits: the status is
\* written whatever it was, and a cancellation clears the auction_id of the
\* NFT rows that name the auction.
CompleteAuction(auctionID, status) ==
    /\ auctions' = [auctions EXCEPT ![auctionID].Status = status]
    /\ nfts' = IF status = AuctionStatusCompleted THEN nfts
               ELSE [n \in NFTs |-> IF nfts[n] = auctionID THEN Null ELSE nfts[n]]

\* AuctionService.FinalizeAuction: read the auction and decide.
FinalizeAuction(p, auctionID, userID) ==
    /\ pc[p] = "idle"
    /\ LET d == IF auctionID \notin AuctionIDs THEN ErrNotFound
                ELSE FinalizeDecision(auctions[auctionID], userID, now) IN
       IF d \notin {AuctionStatusCancelled, AuctionStatusCompleted}
       THEN /\ Return(p, "Finalize", auctionID, d)
            /\ UNCHANGED <<now, auctions, nfts, bids, reaper>>
       ELSE /\ pc' = [pc EXCEPT ![p] = "complete_tx"]
            /\ local' = [local EXCEPT ![p] =
                  [op |-> "Finalize", auction |-> auctionID, status |-> d]]
            /\ UNCHANGED <<now, auctions, nfts, bids, res, reaper>>
    /\ UNCHANGED hubVars

\* CompleteAuction called by FinalizeAuction commits; the service returns
\* the auction with the new status.
FinalizeCommit(p) ==
    /\ pc[p] = "complete_tx"
    /\ CompleteAuction(local[p].auction, local[p].status)
    /\ Return(p, "Finalize", local[p].auction, local[p].status)
    /\ UNCHANGED <<now, bids, reaper>>
    /\ UNCHANGED hubVars

\* A statement or the commit of CompleteAuction fails: rollback.
FinalizeFail(p) ==
    /\ pc[p] = "complete_tx"
    /\ Return(p, "Finalize", local[p].auction, ErrStorage)
    /\ UNCHANGED <<now, auctions, nfts, bids, reaper>>
    /\ UNCHANGED hubVars

----------------------------------------------------------------------------
(* AuctionService.ProcessEndedAuctions, the reaper *)

\* The rows GetEndedAuctions selects at time t.
EndedAuctions(t) ==
    {id \in AuctionIDs : /\ auctions[id].Status = AuctionStatusActive
                         /\ auctions[id].EndTime <= t}

\* The orders ORDER BY end_time ASC can return the rows in.
EndedOrders(t) ==
    {s \in [1..Cardinality(EndedAuctions(t)) -> EndedAuctions(t)] :
        /\ \A i, j \in DOMAIN s : i # j => s[i] # s[j]
        /\ \A i, j \in DOMAIN s :
              i < j => auctions[s[i]].EndTime <= auctions[s[j]].EndTime}

\* ProcessEndedAuctions starts: it reads the ended auctions.  When there is
\* none the loop body never runs and the call returns nil at once.
ReaperScan ==
    /\ reaper = <<>>
    /\ EndedAuctions(now) # {}
    /\ \E s \in EndedOrders(now) :
          reaper' = [i \in DOMAIN s |->
                        [ID |-> s[i], CurrentBid |-> auctions[s[i]].CurrentBid,
                         CurrentBidderID |-> auctions[s[i]].CurrentBidderID,
                         ReservePrice |-> auctions[s[i]].ReservePrice]]
    /\ UNCHANGED <<now, auctions, nfts, bids, pc, local, res>>
    /\ UNCHANGED hubVars

\* The loop body on an auction read without bid or below its reserve:
\* CompleteAuction(cancelled) commits.  After the last auction of the list
\* ProcessEndedAuctions returns nil.
ReaperCancel ==
    /\ reaper # <<>>
    /\ MustCancel(Head(reaper))
    /\ CompleteAuction(Head(reaper).ID, AuctionStatusCancelled)
    /\ reaper' = Tail(reaper)
    /\ UNCHANGED <<now, bids, pc, local, res>>
    /\ UNCHANGED hubVars

\* CompleteAuction fails in the loop body: ProcessEndedAuctions returns the
\* error, the rest of the list is not looked at.
ReaperCancelFail ==
    /\ reaper # <<>>
    /\ MustCancel(Head(reaper))
    /\ reaper' = <<>>
    /\ UNCHANGED <<now, auctions, nfts, bids, pc, local, res>>
    /\ UNCHANGED hubVars

\* The loop body completing an auction read with a winning bid.
ReaperCompletes ==
    /\ reaper # <<>>
    /\ ~MustCancel(Head(reaper))
    /\ CompleteAuction(Head(reaper).ID, AuctionStatusCompleted)
    /\ reaper' = Tail(reaper)
    /\ UNCHANGED <<now, bids, pc, local, res>>
    /\ UNCHANGED hubVars

\* The loop body on an auction read with a winning bid: nothing is written.
ReaperSkip ==
    /\ reaper # <<>>
    /\ ~MustCancel(Head(reaper))
    /\ reaper' = Tail(reaper)
    /\ UNCHANGED <<now, auctions, nfts, bids, pc, local, res>>
    /\ UNCHANGED hubVars

----------------------------------------------------------------------------
(* Specification *)

\* The bounds of the model: a call that would create a row beyond them is
\* not made.
RoomForAuction(req, userID, n) ==
    CreateError(req, userID) = OK => Len(auctions) + InFlight("create_tx") < n

RoomForBid(req, userID) ==
    (/\ req.AuctionID \in AuctionIDs
     /\ PlaceBidError(auctions[req.AuctionID], req, userID, now) = OK)
    => Len(bids) + InFlight("bid_select") + InFlight("bid_update") < MaxBids

\* Two sessions, each with its own identity, around one listing.
Next ==
    \/ Tick
    \/ \E p \in Procs : Respond(p)
    \/ \E p \in Procs, req \in CreateAuctionRequests :
          /\ RoomForAuction(req, TaskUser[p], MaxAuctions)
          /\ Create(p, req, TaskUser[p])
    \/ \E p \in Procs : CreateCommit(p)
    \/ \E p \in Procs : CreateFail(p)
    \/ \E p \in Procs, req \in PlaceBidRequests :
          /\ RoomForBid(req, TaskUser[p])
          /\ PlaceBid(p, req, TaskUser[p])
    \/ \E p \in Procs : CreateBidSelect(p)
    \/ \E p \in Procs : CreateBidCommit(p)
    \/ \E p \in Procs : CreateBidFail(p)
    \/ \E p \in Procs, id \in 1..(MaxAuctions + 1) :
          FinalizeAuction(p, id, TaskUser[p])
    \/ \E p \in Procs : FinalizeCommit(p)
    \/ \E p \in Procs : FinalizeFail(p)
    \/ ReaperScan
    \/ ReaperCancel
    \/ ReaperCancelFail
    \/ ReaperSkip

Spec == Init /\ [][Next]_vars

\* Two requests of any identity around the listings of the NFT: auctions are
\* created, and finalized or swept once ended; no bid is placed.
NextCreate ==
    \/ Tick
    \/ \E p \in Procs : Respond(p)
    \/ \E p \in Procs, req \in CreateAuctionRequests, u \in Users :
          /\ RoomForAuction(req, u, MaxListings)
          /\ Create(p, req, u)
    \/ \E p \in Procs : CreateCommit(p)
    \/ \E p \in Procs : CreateFail(p)
    \/ \E p \in Procs, id \in 1..MaxListings, u \in Users :
          FinalizeAuction(p, id, u)
    \/ \E p \in Procs : FinalizeCommit(p)
    \/ \E p \in Procs : FinalizeFail(p)
    \/ ReaperScan
    \/ ReaperCancel
    \/ ReaperCancelFail

SpecCreate == Init /\ [][NextCreate]_vars

\* The reaper's cancellation of auction id commits.
ReaperCancelOf(id) == ReaperCancel /\ Head(reaper).ID = id

\* The seller lists both NFTs, nobody bids, and the reaper sweeps.
NextSweep ==
    \/ Tick
    \/ \E p \in Procs : Respond(p)
    \/ \E p \in Procs, req \in SweepRequests :
          /\ RoomForAuction(req, TaskUser[p], MaxListings)
          /\ Create(p, req, TaskUser[p])
    \/ \E p \in Procs : CreateCommit(p)
    \/ \E p \in Procs : CreateFail(p)
    \/ ReaperScan
    \/ ReaperCancel
    \/ ReaperCancelFail

SpecSweep == Init /\ [][NextSweep]_vars

\* The sweeps are scheduled fairly: a sweep that can start does start, a
\* started sweep goes on, and the storage does not fail forever on the
\* cancellation of any auction but, possibly, the first one.
SpecSweepFair ==
    /\ SpecSweep
    /\ WF_vars(ReaperScan)
    /\ WF_vars(ReaperCancel \/ ReaperCancelFail)
    /\ \A id \in 2..MaxListings : SF_vars(ReaperCancelOf(id))

\* The PlaceBidRequest bodies of the bidders on the two listings.
IndependentBids ==
    [AuctionID : 1..MaxListings, Amount : {2, 3}, WalletID : Wallets]

\* The seller lists both NFTs and the two bidders bid on either auction.
NextIndependent ==
    \/ \E p \in Procs : Respond(p)
    \/ \E p \in Procs, req \in SweepRequests :
          /\ RoomForAuction(req, TaskUser[p], MaxListings)
          /\ Create(p, req, TaskUser[p])
    \/ \E p \in Procs : CreateCommit(p)
    \/ \E p \in Procs : CreateFail(p)
    \/ \E p \in Procs, req \in IndependentBids :
          /\ RoomForBid(req, TaskUser[p])
          /\ PlaceBid(p, req, TaskUser[p])
    \/ \E p \in Procs : CreateBidSelect(p)
    \/ \E p \in Procs : CreateBidCommit(p)
    \/ \E p \in Procs : CreateBidFail(p)

SpecIndependent == Init /\ [][NextIndependent]_vars

----------------------------------------------------------------------------
(* The hub and the websocket sessions: Hub, Client, ServeWs *)

\* A WebSocketMessage, by its type and the auction it is about.
Msg(type, auctionID) == [type |-> type, auction |-> auctionID]
WelcomeMsg == Msg("welcome", Null)
ErrorMsg == Msg("error", Null)
BroadcastMsg == Msg("broadcast", Null)
AuctionUpdateMsg(auctionID) == Msg("auction_update", auctionID)
BidPlacedMsg(auctionID) == Msg("bid_placed", auctionID)

\* The auction ids the sessions subscribe to.
HubAuctionIDs == 1..MaxAuctions

\* The bid messages the sessions send.
BidMessages ==
    {[AuctionID |-> 1, Amount |-> m, WalletID |-> "w1"] : m \in {2, 3}}

\* The identities ServeWs can find in the request of each session: the first
\* session is authenticated, the second may be anonymous.
SessionIdentities == [t1 |-> {"u1"}, t2 |-> {"u2", NoIdentity}]

\* The CreateAuctionRequest that lists the auction the sessions bid on.
HubCreateRequests ==
    {[NFTID |-> "n1", StartPrice |-> 2, ReservePrice |-> Null,
      BuyNowPrice |-> Null, StartTime |-> 0, EndTime |-> 1]}

\* No entry for an auction in Hub.auctionClients, and the map without entry.
NoEntry == [has |-> FALSE, members |-> {}]
NoAuctionClients == [a \in HubAuctionIDs |-> NoEntry]

\* The process has not died of a panic or of a fatal error.
Alive == panicked = NoPanic

\* The hub's loop is in its select, ready to receive from its channels.
HubAtSelect == hubLoop = {}

\* The select on client.send would take the send branch.
HasRoom(c) == Len(send[c].q) < SendCap

\* The sessions h.auctionClients[auctionID] holds.
Subscribers(auctionID) == auctionClients[auctionID].members

\* The readPump of session p is reading the next message of an open
\* connection.
Reading(p) == Alive /\ conn[p] = "open" /\ pc[p] = "idle"

\* ServeWs: a client is made for the connection, with the identity found in
\* the request; the hub receives it from h.register and adds it to
\* h.clients; the welcome message is queued and the two pumps start.
ServeWs(p, userID) ==
    /\ Alive /\ HubAtSelect
    /\ conn[p] = "none" /\ pc[p] = "idle"
    /\ conn' = [conn EXCEPT ![p] = "open"]
    /\ clientUserID' = [clientUserID EXCEPT ![p] = userID]
    /\ clients' = clients \cup {p}
    /\ send' = [send EXCEPT ![p] = [q |-> <<WelcomeMsg>>, closed |-> FALSE]]
    /\ writePump' = [writePump EXCEPT ![p] = "running"]
    /\ UNCHANGED <<now, auctions, nfts, bids, pc, local, res, reaper,
                   auctionClients, hubLoop, panicked>>

\* Hub.RegisterAuctionClient on the map ac: the entry of auctionID is made
\* when there is none and the client is put in it.
Registered(ac, p, auctionID) ==
    [ac EXCEPT ![auctionID] = [has |-> TRUE, members |-> @.members \cup {p}]]

\* Hub.UnregisterAuctionClient that leaves the entry of an auction in the map
\* when its set has become empty.
UnregisteredKeepsEntry(ac, p, auctionID) ==
    IF ~ac[auctionID].has THEN ac
    ELSE [ac EXCEPT ![auctionID].members = @ \ {p}]

\* Hub.UnregisterAuctionClient on the map ac: when auctionID has an entry the
\* client is deleted from it, and the entry is deleted when it is then empty.
Unregistered(ac, p, auctionID) ==
    IF ~ac[auctionID].has THEN ac
    ELSE IF ac[auctionID].members \ {p} = {}
         THEN [ac EXCEPT ![auctionID] = NoEntry]
         ELSE [ac EXCEPT ![auctionID].members = @ \ {p}]

\* readPump reads a subscribe message and calls Hub.RegisterAuctionClient.
RegisterAuctionClient(p, auctionID) ==
    /\ Reading(p)
    /\ auctionClients' = Registered(auctionClients, p, auctionID)
    /\ UNCHANGED <<now, auctions, nfts, bids, pc, local, res, reaper, conn,
                   clientUserID, writePump, clients, send, hubLoop, panicked>>

\* readPump reads an unsubscribe message and calls
\* Hub.UnregisterAuctionClient.
UnregisterAuctionClient(p, auctionID) ==
    /\ Reading(p)
    /\ auctionClients' = Unregistered(auctionClients, p, auctionID)
    /\ UNCHANGED <<now, auctions, nfts, bids, pc, local, res, reaper, conn,
                   clientUserID, writePump, clients, send, hubLoop, panicked>>

\* readPump goes on to send msg on its own c.send.
ReplyWith(p, msg) ==
    /\ pc' = [pc EXCEPT ![p] = "reply"]
    /\ local' = [local EXCEPT ![p] = [op |-> "Reply", msg |-> msg]]

\* ReadBidUnauthenticated without the test of c.userID: PlaceBid is called
\* with the empty identity.
ReadBidNoIdentityCheck(p) ==
    /\ Reading(p)
    /\ clientUserID[p] = NoIdentity
    /\ \E req \in BidMessages : PlaceBid(p, req, clientUserID[p])

\* readPump reads a bid message on a session without identity: it answers
\* with an error and PlaceBid is not called.
ReadBidUnauthenticated(p) ==
    /\ Reading(p)
    /\ clientUserID[p] = NoIdentity
    /\ ReplyWith(p, ErrorMsg)
    /\ UNCHANGED <<now, auctions, nfts, bids, res, reaper>>
    /\ UNCHANGED hubVars

\* readPump reads a bid message on a session with an identity and calls
\* AuctionService.PlaceBid with it.
ReadBid(p, req) ==
    /\ Reading(p)
    /\ clientUserID[p] # NoIdentity
    /\ PlaceBid(p, req, clientUserID[p])

\* BidFailed that treats the failed bid like an accepted one: it publishes
\* to the auction's subscribers and confirms to the bidder.
BidFailedPublishes(p) ==
    /\ Alive /\ conn[p] # "none"
    /\ pc[p] = "done" /\ res[p].op = "PlaceBid" /\ res[p].out # OK
    /\ pc' = [pc EXCEPT ![p] = "publish"]
    /\ local' = [local EXCEPT ![p] =
          [op |-> "Publish", auction |-> 1, todo |-> Procs]]
    /\ res' = [res EXCEPT ![p] = NoRes]
    /\ UNCHANGED <<now, auctions, nfts, bids, reaper>>
    /\ UNCHANGED hubVars

\* PlaceBid has returned an error: readPump answers with an error message.
BidFailed(p) ==
    /\ Alive /\ conn[p] # "none"
    /\ pc[p] = "done" /\ res[p].op = "PlaceBid" /\ res[p].out # OK
    /\ ReplyWith(p, ErrorMsg)
    /\ res' = [res EXCEPT ![p] = NoRes]
    /\ UNCHANGED <<now, auctions, nfts, bids, reaper>>
    /\ UNCHANGED hubVars

\* readPump continues after the publication of the update of auctionID to
\* the sessions in todo: the loop of BroadcastToAuction goes on, or, at its
\* end, the confirmation is sent to the bidder.
PublishTo(p, auctionID, todo) ==
    IF todo = {}
    THEN ReplyWith(p, BidPlacedMsg(auctionID))
    ELSE /\ pc' = [pc EXCEPT ![p] = "publish"]
         /\ local' = [local EXCEPT ![p] =
               [op |-> "Publish", auction |-> auctionID, todo |-> todo]]

\* PlaceBid has returned the bid: readPump reads the auction again and
\* enters BroadcastToAuction, which ranges over the auction's subscribers.
BidAccepted(p) ==
    /\ Alive /\ conn[p] # "none"
    /\ pc[p] = "done" /\ res[p].op = "PlaceBid" /\ res[p].out = OK
    /\ PublishTo(p, res[p].auction, Subscribers(res[p].auction))
    /\ res' = [res EXCEPT ![p] = NoRes]
    /\ UNCHANGED <<now, auctions, nfts, bids, reaper>>
    /\ UNCHANGED hubVars

\* PlaceBid has returned the bid but GetByID fails: readPump logs and reads
\* the next message; nothing is published and nothing is confirmed.
GetByIDFail(p) ==
    /\ Alive /\ conn[p] # "none"
    /\ pc[p] = "done" /\ res[p].op = "PlaceBid" /\ res[p].out = OK
    /\ pc' = [pc EXCEPT ![p] = "idle"]
    /\ res' = [res EXCEPT ![p] = NoRes]
    /\ UNCHANGED <<now, auctions, nfts, bids, local, reaper>>
    /\ UNCHANGED hubVars

\* One iteration of the loop of BroadcastToAuction, run by the readPump of
\* the bidder p, on subscriber c: the message is queued when c.send has
\* room; otherwise c.send is closed and c is deleted from h.clients and from
\* the subscribers of this auction.  A send on a closed channel panics.
BroadcastToAuction(p, c) ==
    /\ Alive
    /\ pc[p] = "publish"
    /\ c \in local[p].todo
    /\ LET a == local[p].auction
           rest == local[p].todo \ {c} IN
       IF c \notin Subscribers(a)
       THEN /\ PublishTo(p, a, rest)
            /\ UNCHANGED <<clients, auctionClients, send, panicked>>
       ELSE IF send[c].closed
       THEN /\ panicked' = PanicSendOnClosed
            /\ UNCHANGED <<pc, local, clients, auctionClients, send>>
       ELSE IF HasRoom(c)
       THEN /\ send' = [send EXCEPT ![c].q = Append(@, AuctionUpdateMsg(a))]
            /\ PublishTo(p, a, rest)
            /\ UNCHANGED <<clients, auctionClients, panicked>>
       ELSE /\ send' = [send EXCEPT ![c].closed = TRUE]
            /\ clients' = clients \ {c}
            /\ auctionClients' = [auctionClients EXCEPT ![a].members = @ \ {c}]
            /\ PublishTo(p, a, rest)
            /\ UNCHANGED panicked
    /\ UNCHANGED <<now, auctions, nfts, bids, res, reaper, conn, clientUserID,
                   writePump, hubLoop>>

\* readPump sends its private message on c.send; the send waits for room.
PrivateReply(p) ==
    /\ Alive
    /\ pc[p] = "reply"
    /\ ~send[p].closed
    /\ HasRoom(p)
    /\ send' = [send EXCEPT ![p].q = Append(@, local[p].msg)]
    /\ pc' = [pc EXCEPT ![p] = "idle"]
    /\ local' = [local EXCEPT ![p] = NoLocal]
    /\ UNCHANGED <<now, auctions, nfts, bids, res, reaper, conn, clientUserID,
                   writePump, clients, auctionClients, hubLoop, panicked>>

\* readPump sends its private message on a c.send the hub has closed: panic.
PrivateReplyPanic(p) ==
    /\ Alive
    /\ pc[p] = "reply"
    /\ send[p].closed
    /\ panicked' = PanicSendOnClosed
    /\ UNCHANGED <<now, auctions, nfts, bids, pc, local, res, reaper, conn,
                   clientUserID, writePump, clients, auctionClients, send,
                   hubLoop>>

\* ReadMessage returns an error (the peer is gone, the read deadline has
\* expired, or the connection was closed): readPump leaves its loop and its
\* deferred function sends the client on h.unregister.
ReadFail(p) ==
    /\ Alive
    /\ conn[p] \in {"open", "closed"} /\ pc[p] = "idle"
    /\ pc' = [pc EXCEPT ![p] = "unregister"]
    /\ UNCHANGED <<now, auctions, nfts, bids, local, res, reaper>>
    /\ UNCHANGED hubVars

\* HubUnregister without the test of h.clients: the client is deleted and
\* its channel closed whether the hub still holds it or not.
HubUnregisterNoGuard(p) ==
    /\ Alive /\ HubAtSelect
    /\ pc[p] = "unregister"
    /\ IF send[p].closed
       THEN /\ panicked' = PanicCloseOfClosed
            /\ UNCHANGED <<clients, send>>
       ELSE /\ clients' = clients \ {p}
            /\ send' = [send EXCEPT ![p].closed = TRUE]
            /\ UNCHANGED panicked
    /\ pc' = [pc EXCEPT ![p] = IF panicked' = NoPanic THEN "exit" ELSE @]
    /\ conn' = [conn EXCEPT ![p] = IF panicked' = NoPanic THEN "closed" ELSE @]
    /\ local' = [local EXCEPT ![p] = [op |-> "Unregister",
                                      ok |-> p \in clients]]
    /\ UNCHANGED <<now, auctions, nfts, bids, res, reaper, clientUserID,
                   writePump, auctionClients, hubLoop>>

\* Hub.Run receives the client from h.unregister: when the client is in
\* h.clients (ok) it is deleted and its channel closed, otherwise nothing is
\* done.  readPump then closes the connection and ends.
HubUnregister(p) ==
    /\ Alive /\ HubAtSelect
    /\ pc[p] = "unregister"
    /\ IF p \notin clients
       THEN UNCHANGED <<clients, send, panicked>>
       ELSE IF send[p].closed
       THEN /\ panicked' = PanicCloseOfClosed
            /\ UNCHANGED <<clients, send>>
       ELSE /\ clients' = clients \ {p}
            /\ send' = [send EXCEPT ![p].closed = TRUE]
            /\ UNCHANGED panicked
    /\ pc' = [pc EXCEPT ![p] = IF panicked' = NoPanic THEN "exit" ELSE @]
    /\ conn' = [conn EXCEPT ![p] = IF panicked' = NoPanic THEN "closed" ELSE @]
    /\ local' = [local EXCEPT ![p] = [op |-> "Unregister",
                                      ok |-> p \in clients]]
    /\ UNCHANGED <<now, auctions, nfts, bids, res, reaper, clientUserID,
                   writePump, auctionClients, hubLoop>>

\* Hub.Run receives a message from h.broadcast and starts to range over
\* h.clients.
HubBroadcast ==
    /\ Alive /\ HubAtSelect
    /\ clients # {}
    /\ hubLoop' = clients
    /\ UNCHANGED <<now, auctions, nfts, bids, pc, local, res, reaper, conn,
                   clientUserID, writePump, clients, auctionClients, send,
                   panicked>>

\* HubBroadcastStep with a plain send in place of the select with default:
\* the loop waits for room in c.send.
HubBroadcastStepBlocking(c) ==
    /\ Alive
    /\ c \in hubLoop
    /\ hubLoop' = hubLoop \ {c}
    /\ IF c \notin clients
       THEN UNCHANGED <<clients, send, panicked>>
       ELSE IF send[c].closed
       THEN /\ panicked' = PanicSendOnClosed
            /\ UNCHANGED <<clients, send>>
       ELSE /\ HasRoom(c)
            /\ send' = [send EXCEPT ![c].q = Append(@, BroadcastMsg)]
            /\ UNCHANGED <<clients, panicked>>
    /\ UNCHANGED <<now, auctions, nfts, bids, pc, local, res, reaper, conn,
                   clientUserID, writePump, auctionClients>>

\* One iteration of the broadcast loop of Hub.Run, on client c: the message
\* is queued when c.send has room; otherwise c.send is closed and c is
\* deleted from h.clients.
HubBroadcastStep(c) ==
    /\ Alive
    /\ c \in hubLoop
    /\ hubLoop' = hubLoop \ {c}
    /\ IF c \notin clients
       THEN UNCHANGED <<clients, send, panicked>>
       ELSE IF send[c].closed
       THEN /\ panicked' = PanicSendOnClosed
            /\ UNCHANGED <<clients, send>>
       ELSE IF HasRoom(c)
       THEN /\ send' = [send EXCEPT ![c].q = Append(@, BroadcastMsg)]
            /\ UNCHANGED <<clients, panicked>>
       ELSE /\ send' = [send EXCEPT ![c].closed = TRUE]
            /\ clients' = clients \ {c}
            /\ UNCHANGED panicked
    /\ UNCHANGED <<now, auctions, nfts, bids, pc, local, res, reaper, conn,
                   clientUserID, writePump, auctionClients>>

\* writePump receives a message from c.send and writes it to the connection
\* together with the messages queued behind it.
WriteMessages(p) ==
    /\ Alive
    /\ writePump[p] = "running"
    /\ conn[p] = "open"
    /\ send[p].q # <<>>
    /\ send' = [send EXCEPT ![p].q = <<>>]
    /\ UNCHANGED <<now, auctions, nfts, bids, pc, local, res, reaper, conn,
                   clientUserID, writePump, clients, auctionClients, hubLoop,
                   panicked>>

\* writePump receives a message from c.send and the write fails, at
\* NextWriter or at the Close of the writer: writePump closes the
\* connection and ends.
WriteFail(p) ==
    /\ Alive
    /\ writePump[p] = "running"
    /\ send[p].q # <<>>
    /\ \E k \in {1, Len(send[p].q)} :
          send' = [send EXCEPT ![p].q = SubSeq(@, k + 1, Len(@))]
    /\ writePump' = [writePump EXCEPT ![p] = "exited"]
    /\ conn' = [conn EXCEPT ![p] = "closed"]
    /\ UNCHANGED <<now, auctions, nfts, bids, pc, local, res, reaper,
                   clientUserID, clients, auctionClients, hubLoop, panicked>>

\* writePump finds c.send closed and empty: it writes the close message,
\* closes the connection and ends.
WriteClose(p) ==
    /\ Alive
    /\ writePump[p] = "running"
    /\ send[p].q = <<>> /\ send[p].closed
    /\ writePump' = [writePump EXCEPT ![p] = "exited"]
    /\ conn' = [conn EXCEPT ![p] = "closed"]
    /\ UNCHANGED <<now, auctions, nfts, bids, pc, local, res, reaper,
                   clientUserID, clients, auctionClients, send, hubLoop,
                   panicked>>

\* The ticker of writePump fires and the write of the ping fails: writePump
\* closes the connection and ends.
PingFail(p) ==
    /\ Alive
    /\ writePump[p] = "running"
    /\ writePump' = [writePump EXCEPT ![p] = "exited"]
    /\ conn' = [conn EXCEPT ![p] = "closed"]
    /\ UNCHANGED <<now, auctions, nfts, bids, pc, local, res, reaper,
                   clientUserID, clients, auctionClients, send, hubLoop,
                   panicked>>

\* The readPump of q is ranging over the subscribers of auctionID.
IteratingAuction(q, auctionID) ==
    pc[q] = "publish" /\ local[q].auction = auctionID

\* The iteration of the loop of BroadcastToAuction run by p on c finds
\* c.send full: it closes c.send and deletes c from h.clients and from the
\* auction's subscribers.
OverflowOn(p, c) ==
    /\ pc[p] = "publish"
    /\ c \in local[p].todo \cap Subscribers(local[p].auction)
    /\ ~send[c].closed /\ ~HasRoom(c)

\* The next iteration of the loop of BroadcastToAuction run by p can be one
\* that deletes a client.
OverflowPending(p) == \E c \in Procs : OverflowOn(p, c)

\* Two goroutines use one of the hub's maps at the same time and one of them
\* writes it: a session subscribes or unsubscribes, or a publishing session
\* deletes a client, while another goroutine ranges over the same map.  The
\* Go runtime may detect it and end the process.
MapRace ==
    /\ Alive
    /\ \/ \E p, q \in Procs, a \in HubAuctionIDs :
             p # q /\ Reading(p) /\ IteratingAuction(q, a)
       \/ \E p, q \in Procs :
             p # q /\ OverflowPending(p) /\ IteratingAuction(q, local[p].auction)
       \/ \E p \in Procs : OverflowPending(p) /\ ~HubAtSelect
    /\ panicked' = FatalMapRace
    /\ UNCHANGED <<now, auctions, nfts, bids, pc, local, res, reaper, conn,
                   clientUserID, writePump, clients, auctionClients, send,
                   hubLoop>>

\* BroadcastToAuction, run by the readPump of a bidder, closes c.send and
\* only then deletes c from h.clients.  Another goroutine that closes c.send
\* in between (the hub on the unregister of c or in its broadcast loop, or
\* the BroadcastToAuction of another bidder) closes a closed channel.
CloseRace ==
    /\ Alive
    /\ \E p, c \in Procs :
          /\ OverflowOn(p, c)
          /\ c \in clients
          /\ \/ pc[c] = "unregister" /\ HubAtSelect
             \/ c \in hubLoop
             \/ \E q \in Procs \ {p} : OverflowOn(q, c)
    /\ panicked' = PanicCloseOfClosed
    /\ UNCHANGED <<now, auctions, nfts, bids, pc, local, res, reaper, conn,
                   clientUserID, writePump, clients, auctionClients, send,
                   hubLoop>>

\* The keys of a request context.  A context key is compared with its type:
\* UserIDKey, of type contextKey, and the plain string "userID" are different
\* keys.
UserIDKey == "contextKey(userID)"
StringUserID == "string(userID)"
NoKey == "none"
NilValue == "nil"

\* NewContextWithUserID: the context that AuthMiddleware hands on.
NewContextWithUserID(userID) == [key |-> UserIDKey, value |-> userID]

\* The contexts of the requests that reach ServeWs: without identity, with
\* the identity AuthMiddleware has stored, or with an identity stored under
\* the plain string.
Contexts ==
    {[key |-> NoKey, value |-> NilValue]}
       \cup {NewContextWithUserID(u) : u \in Users}
       \cup {[key |-> StringUserID, value |-> u] : u \in Users}

\* ctx.Value(key).
ContextValue(ctx, key) == IF ctx.key = key THEN ctx.value ELSE NilValue

\* ServeWs on a request with context ctx: the connection is upgraded and
\* r.Context().Value("userID").(string) is evaluated.  The assertion on a nil
\* value panics: the handler ends there, with the upgraded connection left
\* open and no client made.
ServeWsFrom(p, ctx) ==
    LET userID == ContextValue(ctx, StringUserID) IN
    IF userID # NilValue
    THEN ServeWs(p, userID)
    ELSE /\ Alive /\ HubAtSelect
         /\ conn[p] = "none" /\ pc[p] = "idle"
         /\ conn' = [conn EXCEPT ![p] = "open"]
         /\ pc' = [pc EXCEPT ![p] = "panic"]
         /\ UNCHANGED <<now, auctions, nfts, bids, local, res, reaper,
                        clientUserID, writePump, clients, auctionClients,
                        send, hubLoop, panicked>>

\* Sessions are opened for requests with any context; they subscribe, the
\* hub broadcasts, and connections fail.
NextServe ==
    \/ \E p \in Procs, ctx \in Contexts : ServeWsFrom(p, ctx)
    \/ \E p \in Procs, a \in HubAuctionIDs : RegisterAuctionClient(p, a)
    \/ \E p \in Procs, a \in HubAuctionIDs : UnregisterAuctionClient(p, a)
    \/ \E p \in Procs : ReadFail(p)
    \/ \E p \in Procs : HubUnregister(p)
    \/ HubBroadcast
    \/ \E c \in Procs : HubBroadcastStep(c)
    \/ \E p \in Procs : WriteMessages(p)
    \/ \E p \in Procs : WriteFail(p)
    \/ \E p \in Procs : WriteClose(p)
    \/ \E p \in Procs : PingFail(p)

SpecServe == Init /\ [][NextServe]_vars

\* Two websocket sessions around one listing: the seller lists the NFT over
\* HTTP, the sessions subscribe and bid, the hub broadcasts, connections fail.
NextHub ==
    \/ \E p \in Procs, req \in HubCreateRequests :
          /\ Alive /\ \A q \in Procs : conn[q] = "none"
          /\ RoomForAuction(req, TaskUser[p], MaxAuctions)
          /\ Create(p, req, TaskUser[p])
    \/ \E p \in Procs : Alive /\ CreateCommit(p)
    \/ \E p \in Procs : Alive /\ res[p].op = "Create" /\ Respond(p)
    \/ \E p \in Procs : \E u \in SessionIdentities[p] : ServeWs(p, u)
    \/ \E p \in Procs, a \in HubAuctionIDs : RegisterAuctionClient(p, a)
    \/ \E p \in Procs, a \in HubAuctionIDs : UnregisterAuctionClient(p, a)
    \/ \E p \in Procs : ReadBidUnauthenticated(p)
    \/ \E p \in Procs, req \in BidMessages :
          /\ RoomForBid(req, clientUserID[p])
          /\ ReadBid(p, req)
    \/ \E p \in Procs : Alive /\ CreateBidSelect(p)
    \/ \E p \in Procs : Alive /\ CreateBidCommit(p)
    \/ \E p \in Procs : Alive /\ CreateBidFail(p)
    \/ \E p \in Procs : BidFailed(p)
    \/ \E p \in Procs : BidAccepted(p)
    \/ \E p \in Procs : GetByIDFail(p)
    \/ \E p, c \in Procs : BroadcastToAuction(p, c)
    \/ \E p \in Procs : PrivateReply(p)
    \/ \E p \in Procs : PrivateReplyPanic(p)
    \/ \E p \in Procs : ReadFail(p)
    \/ \E p \in Procs : HubUnregister(p)
    \/ HubBroadcast
    \/ \E c \in Procs : HubBroadcastStep(c)
    \/ \E p \in Procs : WriteMessages(p)
    \/ \E p \in Procs : WriteFail(p)
    \/ \E p \in Procs : WriteClose(p)
    \/ \E p \in Procs : PingFail(p)
    \/ MapRace
    \/ CloseRace

SpecHub == Init /\ [][NextHub]_vars

----------------------------------------------------------------------------
(* Properties *)

\* The committed rows of the store.
store == <<auctions, nfts, bids>>

\* The amounts of the accepted bids for auction id among the bid rows bs.
AcceptedAmountsOf(bs, id) ==
    {bs[i].Amount : i \in {j \in DOMAIN bs : /\ bs[j].AuctionID = id
                                             /\ bs[j].Accepted}}

\* The amounts of the accepted bids committed for auction id.
AcceptedAmounts(id) == AcceptedAmountsOf(bids, id)

\* The greatest element of a non-empty set of amounts.
Maximum(S) == CHOOSE x \in S : \A y \in S : y <= x

\* Task p has just returned from a PlaceBid that committed its bid.
BidCommitted(p) ==
    /\ pc[p] = "bid_update" /\ pc'[p] = "done"
    /\ res'[p].out = OK

\* C1: for any interleaving of concurrent PlaceBid calls on one auction, when
\* a call has committed its bid the persisted currentBid equals the maximum
\* amount among the bids committed for the auction (each of which exceeded
\* the current value it was checked against at arrival): no accepted bid's
\* update is lost and no lower bid overwrites a higher one.
C1_NoLostUpdate ==
    [][\A p \in Procs :
          BidCommitted(p) =>
             /\ local[p].bid.Amount
                   \in AcceptedAmountsOf(bids', local[p].bid.AuctionID)
             /\ auctions'[local[p].bid.AuctionID].CurrentBid =
                   Maximum(AcceptedAmountsOf(bids', local[p].bid.AuctionID))]_vars

\* C2: in every reachable state an auction's currentBid is either absent, and
\* then no accepted bid is persisted for the auction, or equal to the maximum
\* amount among the accepted bids persisted for it.
C2_CurrentBidIsMaxAccepted ==
    \A id \in AuctionIDs :
       IF auctions[id].CurrentBid = Null
       THEN AcceptedAmounts(id) = {}
       ELSE /\ AcceptedAmounts(id) # {}
            /\ auctions[id].CurrentBid = Maximum(AcceptedAmounts(id))

\* C3: across every step of PlaceBid, Finalize and the reaper an auction's
\* persisted currentBid never decreases and never goes from present back to
\* absent.
C3_CurrentBidMonotonic ==
    [][\A id \in AuctionIDs :
          /\ auctions[id].CurrentBid # Null => auctions'[id].CurrentBid # Null
          /\ auctions'[id].CurrentBid >= auctions[id].CurrentBid]_vars

\* C4: Completed and Cancelled are terminal: once an auction has one of these
\* statuses, no step of any operation changes its status.
C4_TerminalStatus ==
    [][\A id \in AuctionIDs :
          auctions[id].Status \in {AuctionStatusCompleted, AuctionStatusCancelled}
          => auctions'[id].Status = auctions[id].Status]_vars

\* C5: a bid row is committed, and currentBid and currentBidderId are
\* written, only at a moment when the auction is Active and now is within
\* [startTime, endTime).
C5_BidOnlyWhileOpen ==
    [][\A id \in AuctionIDs :
          (\/ Len(bids') # Len(bids) /\ bids'[Len(bids')].AuctionID = id
           \/ auctions'[id].CurrentBid # auctions[id].CurrentBid
           \/ auctions'[id].CurrentBidderID # auctions[id].CurrentBidderID)
          => /\ auctions[id].Status = AuctionStatusActive
             /\ auctions[id].StartTime <= now
             /\ now < auctions[id].EndTime]_vars

\* The auctions of NFT n that are in status Draft or Active.
OpenAuctions(n) ==
    {id \in AuctionIDs : /\ auctions[id].NFTID = n
                         /\ auctions[id].Status \in
                               {AuctionStatusDraft, AuctionStatusActive}}

\* C6: under any interleaving of Create calls there is at most one auction in
\* status Draft or Active per NFT, and it is the auction the NFT references.
C6_OneOpenAuctionPerNFT ==
    \A n \in NFTs :
       /\ Cardinality(OpenAuctions(n)) <= 1
       /\ \A id \in OpenAuctions(n) : nfts[n] = id

\* The auction named by req is Active and now is within [startTime, endTime).
OpenForBids(req) ==
    /\ req.AuctionID \in AuctionIDs
    /\ auctions[req.AuctionID].Status = AuctionStatusActive
    /\ auctions[req.AuctionID].StartTime <= now
    /\ now < auctions[req.AuctionID].EndTime

\* The call of task p is rejected with BidTooLow and nothing is persisted.
RejectedTooLow(p) ==
    /\ pc'[p] = "done"
    /\ res'[p].op = "PlaceBid"
    /\ res'[p].out \in BidTooLow
    /\ UNCHANGED store

\* C7 as claimed: PlaceBid with amount <= max(startPrice, currentBid) on an
\* Active auction within its window is always rejected with BidTooLow and
\* persists nothing; equality with startPrice (no current bid) and with
\* currentBid are both rejected.
C7_AtMostMaxRejected ==
    [][\A p \in Procs, req \in PlaceBidRequests :
          (/\ PlaceBid(p, req, TaskUser[p])
           /\ OpenForBids(req)
           /\ req.Amount <= Max(auctions[req.AuctionID].StartPrice,
                                auctions[req.AuctionID].CurrentBid))
          => RejectedTooLow(p)]_vars

\* C7 as amended: PlaceBid with amount < startPrice, or with amount <=
\* currentBid when there is a current bid, on an Active auction within its
\* window is always rejected with BidTooLow and persists nothing; amount =
\* currentBid is rejected, amount = startPrice with no current bid is not
\* rejected as too low.
C7_BelowStartOrAtMostCurrentRejected ==
    [][\A p \in Procs, req \in PlaceBidRequests :
          (PlaceBid(p, req, TaskUser[p]) /\ OpenForBids(req))
          => LET a == auctions[req.AuctionID] IN
             /\ (\/ req.Amount < a.StartPrice
                 \/ a.CurrentBid # Null /\ req.Amount <= a.CurrentBid)
                   => RejectedTooLow(p)
             /\ (a.CurrentBid = Null /\ req.Amount = a.StartPrice)
                   => ~(pc'[p] = "done" /\ res'[p].out \in BidTooLow)]_vars

\* A bid was rejected as too low on an auction that is open for bids and
\* has a current bid.
C7_Witness ==
    \E p \in Procs :
       /\ pc[p] = "done" /\ res[p].op = "PlaceBid"
       /\ res[p].out = ErrBidNotHigher
       /\ OpenForBids([AuctionID |-> res[p].auction])
       /\ auctions[res[p].auction].CurrentBid # Null

\* C8: PlaceBid on an auction whose status is Draft, Completed or Cancelled
\* always fails with InvalidState, for every amount, time and bidder, and
\* persists no bid.
C8_NotActiveRejected ==
    [][\A p \in Procs, req \in PlaceBidRequests :
          (/\ PlaceBid(p, req, TaskUser[p])
           /\ req.AuctionID \in AuctionIDs
           /\ auctions[req.AuctionID].Status \in
                 {AuctionStatusDraft, AuctionStatusCompleted,
                  AuctionStatusCancelled})
          => /\ pc'[p] = "done"
             /\ res'[p].op = "PlaceBid"
             /\ res'[p].out = ErrNotActive
             /\ UNCHANGED store]_vars

\* A bid on a Completed auction was refused as InvalidState.
C8_Witness ==
    \E p \in Procs :
       /\ pc[p] = "done" /\ res[p].op = "PlaceBid"
       /\ res[p].out = ErrNotActive
       /\ auctions[res[p].auction].Status = AuctionStatusCompleted

\* C9: PlaceBid on an Active auction fails with NotStarted when now <
\* startTime and with Ended when now >= endTime, and passes the time check
\* for every now with startTime <= now < endTime.
C9_HalfOpenWindow ==
    [][\A p \in Procs, req \in PlaceBidRequests :
          (/\ PlaceBid(p, req, TaskUser[p])
           /\ req.AuctionID \in AuctionIDs
           /\ auctions[req.AuctionID].Status = AuctionStatusActive)
          => LET a == auctions[req.AuctionID]
                 failed(e) == pc'[p] = "done" /\ res'[p].out = e IN
             /\ now < a.StartTime => failed(ErrNotStarted)
             /\ now >= a.EndTime => failed(ErrEnded)
             /\ (a.StartTime <= now /\ now < a.EndTime)
                   => ~failed(ErrNotStarted) /\ ~failed(ErrEnded)]_vars

\* C10: Finalize on an Active auction at any now before endTime, when no bid
\* has met buyNowPrice (it is absent, there is no current bid, or currentBid
\* is below it), always fails with NotEnded and leaves the auction and the
\* NFT unchanged.
C10_NotEndedBeforeEndTime ==
    [][\A p \in Procs, id \in AuctionIDs :
          (/\ FinalizeAuction(p, id, TaskUser[p])
           /\ auctions[id].Status = AuctionStatusActive
           /\ now < auctions[id].EndTime
           /\ \/ auctions[id].BuyNowPrice = Null
              \/ auctions[id].CurrentBid = Null
              \/ auctions[id].CurrentBid < auctions[id].BuyNowPrice)
          => /\ pc'[p] = "done"
             /\ res'[p].op = "Finalize"
             /\ res'[p].out = ErrNotEnded
             /\ UNCHANGED store]_vars

\* A Finalize was refused as NotEnded on an Active auction that has a buy-now
\* price and a current bid below it, before its end time.
C10_Witness ==
    \E p \in Procs :
       /\ pc[p] = "done" /\ res[p].op = "Finalize"
       /\ res[p].out = ErrNotEnded
       /\ LET a == auctions[res[p].auction] IN
          /\ a.Status = AuctionStatusActive
          /\ now < a.EndTime
          /\ a.BuyNowPrice # Null
          /\ a.CurrentBid # Null
          /\ a.CurrentBid < a.BuyNowPrice

----------------------------------------------------------------------------
(* Properties of FinalizeAuction and of the reaper, branch by branch *)

\* The Finalize call of task p returns e in this step.
FinalizeReturned(p, e) ==
    /\ pc'[p] = "done"
    /\ res'[p].op = "Finalize"
    /\ res'[p].out = e

\* The Finalize call of task p has decided on status st in this step and
\* enters the CompleteAuction transaction with it.
FinalizeDecided(p, id, st) ==
    /\ pc'[p] = "complete_tx"
    /\ local'[p].auction = id
    /\ local'[p].status = st

\* The auction row holds a bid that wins: a current bid with its bidder, and
\* the reserve price absent or met.
HasWinningBid(auction) ==
    /\ auction.CurrentBid # Null
    /\ auction.CurrentBidderID # NoUser
    /\ (auction.ReservePrice = Null \/ auction.CurrentBid >= auction.ReservePrice)

\* The CompleteAuction transaction of some Finalize call commits status st on
\* auction id in this step.
CommitsStatus(p, id, st) ==
    /\ pc[p] = "complete_tx" /\ pc'[p] = "done"
    /\ local[p].auction = id /\ local[p].status = st
    /\ res'[p].out # ErrStorage

\* The reaper processes the head of its list in this step.
ReaperStep == reaper # <<>> /\ reaper' # reaper

\* The reaper's step either cancelled the auction at the head of its list and
\* cleared the NFT's reference, or hit a storage failure that wrote nothing.
ReaperCancelledOrFailed ==
    \/ /\ auctions'[Head(reaper).ID].Status = AuctionStatusCancelled
       /\ \A n \in NFTs : nfts'[n] # Head(reaper).ID
       /\ reaper' = Tail(reaper)
    \/ /\ UNCHANGED store
       /\ reaper' = <<>>

\* C11: Finalize on an Active auction passes the time gate for every now >=
\* endTime, now = endTime included: it never fails with NotEnded then.
C11_GateOpenFromEndTime ==
    [][\A p \in Procs, id \in AuctionIDs :
          (/\ FinalizeAuction(p, id, TaskUser[p])
           /\ auctions[id].Status = AuctionStatusActive
           /\ now >= auctions[id].EndTime)
          => ~FinalizeReturned(p, ErrNotEnded)]_vars

\* C12: when an Active auction has a buyNowPrice and currentBid >= buyNowPrice
\* (equality suffices), Finalize before endTime never fails with NotEnded;
\* called by the current bidder with the reserve met or absent it decides
\* Completed, and the commit of that decision makes the auction Completed.
C12_BuyNowBypassesGate ==
    [][\A p \in Procs, id \in AuctionIDs :
          /\ (/\ FinalizeAuction(p, id, TaskUser[p])
              /\ auctions[id].Status = AuctionStatusActive
              /\ auctions[id].BuyNowPrice # Null
              /\ auctions[id].CurrentBid # Null
              /\ auctions[id].CurrentBid >= auctions[id].BuyNowPrice
              /\ now < auctions[id].EndTime)
             => /\ ~FinalizeReturned(p, ErrNotEnded)
                /\ (/\ HasWinningBid(auctions[id])
                    /\ auctions[id].CurrentBidderID = TaskUser[p])
                      => FinalizeDecided(p, id, AuctionStatusCompleted)
          /\ CommitsStatus(p, id, AuctionStatusCompleted)
             => auctions'[id].Status = AuctionStatusCompleted]_vars

\* The current bidder's Finalize has completed an auction before its end
\* time, on a bid equal to the buy-now price.
C12_Witness ==
    \E p \in Procs :
       /\ pc[p] = "done" /\ res[p].op = "Finalize"
       /\ res[p].out = AuctionStatusCompleted
       /\ LET a == auctions[res[p].auction] IN
          /\ a.Status = AuctionStatusCompleted
          /\ now < a.EndTime
          /\ a.CurrentBid = a.BuyNowPrice
          /\ a.CurrentBidderID = TaskUser[p]

\* C13: Finalize, by any caller, or the reaper, on an Active auction past the
\* time gate with no accepted bid, yields Cancelled, and the step that
\* commits the cancellation also clears the NFT's auction reference; short of
\* a storage failure no other outcome exists, whoever the caller is.
C13_NoBidsCancelled ==
    [][/\ \A p \in Procs, id \in AuctionIDs :
             /\ (/\ FinalizeAuction(p, id, TaskUser[p])
                 /\ auctions[id].Status = AuctionStatusActive
                 /\ AcceptedAmounts(id) = {}
                 /\ ~FinalizeReturned(p, ErrNotEnded))
                => FinalizeDecided(p, id, AuctionStatusCancelled)
             /\ CommitsStatus(p, id, AuctionStatusCancelled)
                => /\ auctions'[id].Status = AuctionStatusCancelled
                   /\ \A n \in NFTs : nfts'[n] # id
       /\ (ReaperStep /\ Head(reaper).CurrentBid = Null)
          => ReaperCancelledOrFailed]_vars

\* A caller who is not the seller has finalized an ended auction without
\* bids: it is Cancelled and its NFT references no auction.
C13_Witness ==
    \E p \in Procs :
       /\ pc[p] = "done" /\ res[p].op = "Finalize"
       /\ res[p].out = AuctionStatusCancelled
       /\ TaskUser[p] # WalletUserID[auctions[res[p].auction].SellerWalletID]
       /\ AcceptedAmounts(res[p].auction) = {}
       /\ auctions[res[p].auction].Status = AuctionStatusCancelled
       /\ nfts[auctions[res[p].auction].NFTID] = Null

\* The reserve price of the auction row is set and its current bid is below.
ReserveUnmet(auction) ==
    /\ auction.ReservePrice # Null
    /\ auction.CurrentBid # Null
    /\ auction.CurrentBid < auction.ReservePrice

\* C14: Finalize, by any caller, the current bidder included, or the reaper,
\* on an Active auction past the time gate whose reservePrice is set and
\* above currentBid, yields Cancelled, never Completed nor Unauthorized.
C14_ReserveUnmetCancelled ==
    [][/\ \A p \in Procs, id \in AuctionIDs :
             /\ (/\ FinalizeAuction(p, id, TaskUser[p])
                 /\ auctions[id].Status = AuctionStatusActive
                 /\ ReserveUnmet(auctions[id])
                 /\ ~FinalizeReturned(p, ErrNotEnded))
                => /\ FinalizeDecided(p, id, AuctionStatusCancelled)
                   /\ ~FinalizeReturned(p, ErrNotWinner)
             /\ CommitsStatus(p, id, AuctionStatusCancelled)
                => auctions'[id].Status = AuctionStatusCancelled
       /\ (ReaperStep /\ ReserveUnmet(Head(reaper)))
          => ReaperCancelledOrFailed]_vars

\* The current bidder has finalized an ended auction whose bid is below the
\* reserve price: it is Cancelled.
C14_Witness ==
    \E p \in Procs :
       /\ pc[p] = "done" /\ res[p].op = "Finalize"
       /\ res[p].out = AuctionStatusCancelled
       /\ LET a == auctions[res[p].auction] IN
          /\ a.Status = AuctionStatusCancelled
          /\ ReserveUnmet(a)
          /\ a.CurrentBidderID = TaskUser[p]

\* C15: Finalize by an identity other than currentBidderId, on an Active
\* auction past the gate that holds a winning bid with the reserve met or
\* absent, fails with Unauthorized and writes nothing: the auction stays
\* Active and its NFT reference stays.
C15_NotWinnerRejected ==
    [][\A p \in Procs, id \in AuctionIDs :
          (/\ FinalizeAuction(p, id, TaskUser[p])
           /\ auctions[id].Status = AuctionStatusActive
           /\ HasWinningBid(auctions[id])
           /\ auctions[id].CurrentBidderID # TaskUser[p]
           /\ ~FinalizeReturned(p, ErrNotEnded))
          => /\ FinalizeReturned(p, ErrNotWinner)
             /\ UNCHANGED store
             /\ auctions'[id].Status = AuctionStatusActive]_vars

\* A Finalize by someone else than the bidder was refused on an ended auction
\* with a winning bid, which is still Active and referenced by its NFT.
C15_Witness ==
    \E p \in Procs :
       /\ pc[p] = "done" /\ res[p].op = "Finalize"
       /\ res[p].out = ErrNotWinner
       /\ LET a == auctions[res[p].auction] IN
          /\ a.Status = AuctionStatusActive
          /\ HasWinningBid(a)
          /\ a.CurrentBidderID # TaskUser[p]
          /\ nfts[a.NFTID] = res[p].auction

\* C16: Finalize by the current bidder on an Active auction past the gate
\* with a winning bid and the reserve met or absent decides Completed, and
\* the commit of that decision makes the auction Completed and leaves the
\* auction reference of every NFT as it was.
C16_WinnerCompletes ==
    [][\A p \in Procs, id \in AuctionIDs :
          /\ (/\ FinalizeAuction(p, id, TaskUser[p])
              /\ auctions[id].Status = AuctionStatusActive
              /\ HasWinningBid(auctions[id])
              /\ auctions[id].CurrentBidderID = TaskUser[p]
              /\ ~FinalizeReturned(p, ErrNotEnded))
             => FinalizeDecided(p, id, AuctionStatusCompleted)
          /\ CommitsStatus(p, id, AuctionStatusCompleted)
             => /\ auctions'[id].Status = AuctionStatusCompleted
                /\ UNCHANGED nfts]_vars

\* The winner has finalized an auction after its end time: it is Completed
\* and its NFT still references it.
C16_Witness ==
    \E p \in Procs :
       /\ pc[p] = "done" /\ res[p].op = "Finalize"
       /\ res[p].out = AuctionStatusCompleted
       /\ LET a == auctions[res[p].auction] IN
          /\ a.Status = AuctionStatusCompleted
          /\ now > a.EndTime
          /\ ~BuyNowTriggered(a)
          /\ a.CurrentBidderID = TaskUser[p]
          /\ nfts[a.NFTID] = res[p].auction

\* C17: no step of the reaper makes an auction Completed; on an ended auction
\* it read with a winning bid and the reserve met or absent its step writes
\* nothing (status, currentBid, currentBidderId and the NFT reference stay);
\* and an auction becomes Completed only in the commit of a Finalize call
\* that decided Completed.
C17_ReaperNeverCompletes ==
    [][/\ ReaperStep
          => \A id \in AuctionIDs :
                auctions'[id].Status = AuctionStatusCompleted
                => auctions[id].Status = AuctionStatusCompleted
       /\ (ReaperStep /\ HasWinningBid(Head(reaper)))
          => UNCHANGED store /\ reaper' = Tail(reaper)
       /\ \A id \in AuctionIDs :
             (/\ auctions[id].Status # AuctionStatusCompleted
              /\ auctions'[id].Status = AuctionStatusCompleted)
             => \E p \in Procs : CommitsStatus(p, id, AuctionStatusCompleted)]_vars

\* The reaper is about to process an ended Active auction that it read with
\* a winning bid and whose row still holds it.
C17_Witness ==
    /\ reaper # <<>>
    /\ HasWinningBid(Head(reaper))
    /\ LET a == auctions[Head(reaper).ID] IN
       /\ a.Status = AuctionStatusActive
       /\ a.EndTime <= now
       /\ HasWinningBid(a)
       /\ a.CurrentBid = Head(reaper).CurrentBid

\* C18: a storage failure while the reaper processes one auction does not
\* abort the sweep: each step of the loop takes the first auction off the
\* list of the sweep and leaves the others to be processed in that sweep.
C18_FailureKeepsSweeping ==
    [][ReaperStep => reaper' = Tail(reaper)]_vars

\* Auction id is Active, ended, and has no accepted bid or an unmet reserve.
DueForCancellation(id) ==
    /\ id \in AuctionIDs
    /\ auctions[id].Status = AuctionStatusActive
    /\ auctions[id].EndTime <= now
    /\ MustCancel(auctions[id])

\* C19: under fair scheduling of the sweeps, every Active auction with
\* endTime <= now and no accepted bid or an unmet reserve is eventually
\* Cancelled, even when the storage fails forever for another ended auction.
C19_DueEventuallyCancelled ==
    \A id \in 2..MaxListings :
       DueForCancellation(id) ~>
          (id \in AuctionIDs /\ auctions[id].Status = AuctionStatusCancelled)

\* C20: AuctionRepository.Create is atomic.  The step that ends it either
\* inserts the auction row and stamps its NFT with the new id, returning
\* success, or returns the storage error with neither write visible; no
\* step adds an auction row without the stamp, or stamps an NFT without
\* adding the row.
C20_CreateAtomic ==
    [][/\ \A p \in Procs :
             (pc[p] = "create_tx" /\ pc'[p] = "done")
             => \/ /\ res'[p].out = OK
                   /\ auctions' = Append(auctions, local[p].auction)
                   /\ nfts' = [nfts EXCEPT ![local[p].auction.NFTID] =
                                              Len(auctions')]
                \/ /\ res'[p].out = ErrStorage
                   /\ UNCHANGED <<auctions, nfts>>
       /\ Len(auctions') # Len(auctions)
          => /\ Len(auctions') = Len(auctions) + 1
             /\ nfts'[auctions'[Len(auctions')].NFTID] = Len(auctions')
       /\ \A n \in NFTs :
             (nfts'[n] # nfts[n] /\ nfts'[n] # Null)
             => /\ Len(auctions') = Len(auctions) + 1
                /\ nfts'[n] = Len(auctions')
                /\ auctions'[nfts'[n]].NFTID = n]_vars

\* A Create has failed in its transaction and left neither an auction row
\* nor a stamp on the NFT.
C20_Witness ==
    \E p \in Procs :
       /\ pc[p] = "done" /\ res[p].op = "Create"
       /\ res[p].out = ErrStorage
       /\ auctions = <<>>
       /\ \A n \in NFTs : nfts[n] = Null

----------------------------------------------------------------------------
(* Properties of AuctionService.Create *)

\* The Create call of task p returns e in this step and writes nothing.
CreateRejected(p, e) ==
    /\ pc'[p] = "done"
    /\ res'[p].op = "Create"
    /\ res'[p].out = e
    /\ UNCHANGED store

\* C21: Create fails with AlreadyListed when the NFT already references an
\* auction, and with NotOwner when it references none and no wallet of the
\* caller owns it; in both cases no auction is persisted and the NFT's
\* auction reference is unchanged.
C21_CreateRejections ==
    [][\A p \in Procs, req \in CreateAuctionRequests, u \in Users :
          Create(p, req, u)
          => /\ nfts[req.NFTID] # Null => CreateRejected(p, ErrAlreadyListed)
             /\ (/\ nfts[req.NFTID] = Null
                 /\ \A w \in Wallets :
                       WalletUserID[w] = u => NFTWalletID[req.NFTID] # w)
                => CreateRejected(p, ErrNotOwner)]_vars

\* One Create has been refused as AlreadyListed and another as NotOwner.
C21_Witness ==
    \E p, q \in Procs :
       /\ pc[p] = "done" /\ res[p].op = "Create"
       /\ res[p].out = ErrAlreadyListed
       /\ pc[q] = "done" /\ res[q].op = "Create"
       /\ res[q].out = ErrNotOwner

\* C22: a successfully created auction is Active if now >= startTime when
\* Create builds it (now = startTime included) and Draft otherwise; the row
\* committed is the one built: never Completed nor Cancelled, and without
\* currentBid and currentBidderId.
C22_InitialStatus ==
    [][\A p \in Procs :
          /\ \A req \in CreateAuctionRequests :
                (Create(p, req, TaskUser[p]) /\ pc'[p] = "create_tx")
                => local'[p].auction.Status =
                      IF now >= req.StartTime THEN AuctionStatusActive
                      ELSE AuctionStatusDraft
          /\ (pc[p] = "create_tx" /\ pc'[p] = "done" /\ res'[p].out = OK)
             => LET a == auctions'[Len(auctions')] IN
                /\ Len(auctions') = Len(auctions) + 1
                /\ a = local[p].auction
                /\ a.Status \in {AuctionStatusDraft, AuctionStatusActive}
                /\ a.CurrentBid = Null
                /\ a.CurrentBidderID = NoUser]_vars

\* An auction has been created at now = startTime: it is Active.
C22_Witness ==
    \E p \in Procs :
       /\ pc[p] = "done" /\ res[p].op = "Create" /\ res[p].out = OK
       /\ now = 1
       /\ auctions[res[p].auction].StartTime = now
       /\ auctions[res[p].auction].Status = AuctionStatusActive
       /\ auctions[res[p].auction].CurrentBid = Null

----------------------------------------------------------------------------
(* Properties of the hub and of the websocket sessions *)

\* A step of the sequential loop of Hub.Run: the receipt of a client from
\* h.register or from h.unregister, or one iteration of the broadcast loop.
HubLoopStep ==
    \/ \E p \in Procs : \E u \in SessionIdentities[p] : ServeWs(p, u)
    \/ \E p \in Procs : HubUnregister(p)
    \/ \E c \in Procs : HubBroadcastStep(c)

\* C23: every mutation of the hub's set of connected sessions and of the
\* mapping from auctions to subscribers happens in a step of the hub's
\* sequential loop, never in a step of a session task.
C23_SetsMutatedOnlyByHubLoop ==
    [][(clients' # clients \/ auctionClients' # auctionClients)
          => HubLoopStep]_vars

\* The number of auction_update messages for auctionID in the queue q.
UpdatesIn(q, auctionID) ==
    Cardinality({i \in 1..Len(q) : q[i] = AuctionUpdateMsg(auctionID)})

\* PlaceBid has returned the accepted bid to the readPump of p.
BidReturned(p) ==
    pc[p] = "done" /\ res[p].op = "PlaceBid" /\ res[p].out = OK

\* C24: an accepted bid on an auction delivers exactly one auction_update to
\* each session subscribed to the auction and none to any other session:
\* after the bid is accepted the bidder's session goes on to publish to all
\* the subscribers, each turn of the publication on a subscriber queues one
\* update for it, and an update is queued only so.
C24_OneUpdatePerSubscriber ==
    [][/\ \A p \in Procs :
             (/\ BidReturned(p) /\ pc'[p] # "done"
              /\ Subscribers(res[p].auction) # {})
                => /\ pc'[p] = "publish"
                   /\ local'[p].auction = res[p].auction
                   /\ local'[p].todo = Subscribers(res[p].auction)
       /\ \A p, c \in Procs :
             (/\ pc[p] = "publish"
              /\ c \in local[p].todo \cap Subscribers(local[p].auction)
              /\ <<pc[p], local[p], send[c], panicked>>
                    # <<pc'[p], local'[p], send'[c], panicked'>>)
                => UpdatesIn(send'[c].q, local[p].auction)
                      = UpdatesIn(send[c].q, local[p].auction) + 1
       /\ \A c \in Procs, a \in HubAuctionIDs :
             UpdatesIn(send'[c].q, a) > UpdatesIn(send[c].q, a)
                => /\ UpdatesIn(send'[c].q, a) = UpdatesIn(send[c].q, a) + 1
                   /\ \E p \in Procs :
                         /\ pc[p] = "publish" /\ local[p].auction = a
                         /\ c \in local[p].todo \cap Subscribers(a)
                         /\ c \notin local'[p].todo]_vars

\* A publication, global or to an auction, finds the queue of c full and
\* closes c.send in this step.
OverflowClose(c) ==
    /\ ~send[c].closed /\ send'[c].closed
    /\ \/ HubBroadcastStep(c)
       \/ \E p \in Procs : BroadcastToAuction(p, c)

\* C25: when a publication finds the queue of a session full, the session's
\* channel is closed and the session is removed from the connected set and
\* from the subscribers of every auction, and the publication goes on with
\* the other recipients.
C25_OverflowRemovesFromEverySet ==
    [][\A c \in Procs :
          OverflowClose(c)
             => /\ c \notin clients'
                /\ \A a \in HubAuctionIDs : c \notin auctionClients'[a].members
                /\ panicked' = NoPanic]_vars

\* C26: the hub never waits for a slow consumer: whenever a broadcast or a
\* publication to an auction has a recipient left to serve, its step on that
\* recipient can be taken at once, whether the recipient's queue has room or
\* not.
C26_HubNeverBlocks ==
    Alive =>
       /\ \A c \in hubLoop : ENABLED HubBroadcastStep(c)
       /\ \A p, c \in Procs :
             (pc[p] = "publish" /\ c \in local[p].todo)
                => ENABLED BroadcastToAuction(p, c)

\* A broadcast of the hub has closed the full queue of a session that has
\* not unregistered, and goes on with the other client.
C26_Witness ==
    /\ Alive
    /\ \E c, d \in Procs :
          /\ c # d
          /\ hubLoop = {d}
          /\ send[c].closed /\ ~HasRoom(c)
          /\ c \notin clients
          /\ pc[c] \notin {"unregister", "exit"}
          /\ ~HasRoom(d) /\ ~send[d].closed

\* PlaceBid has returned an error to the readPump of p.
BidRejected(p) ==
    pc[p] = "done" /\ res[p].op = "PlaceBid" /\ res[p].out # OK

\* The readPump of p is about to send the error envelope for a failed bid
\* of an authenticated session.
ErrorReplyPending(p) ==
    /\ pc[p] = "reply" /\ local[p].msg = ErrorMsg
    /\ clientUserID[p] # NoIdentity

\* C27: when the PlaceBid of a session's bid message fails, the store is
\* left as it was, the session goes on to send one error envelope to
\* itself, and that send queues exactly this one message on the session's
\* own queue and nothing on any other queue.
C27_FailedBidPrivateError ==
    [][\A p \in Procs :
          /\ (BidRejected(p)' /\ ~BidRejected(p)) => store' = store
          /\ (BidRejected(p) /\ ~BidRejected(p)')
                => /\ ErrorReplyPending(p)'
                   /\ send' = send /\ store' = store
          /\ (ErrorReplyPending(p) /\ pc'[p] # "reply")
                => /\ send'[p].q = Append(send[p].q, ErrorMsg)
                   /\ \A c \in Procs \ {p} : send'[c] = send[c]
                   /\ store' = store
                   /\ pc'[p] = "idle"]_vars

\* The error envelope of a failed bid is in the queue of the session that
\* sent the bid, after another session has connected.
C27_Witness ==
    \E p, c \in Procs :
       /\ p # c /\ conn[c] = "open"
       /\ clientUserID[p] # NoIdentity
       /\ \E i \in 1..Len(send[p].q) : send[p].q[i] = ErrorMsg

\* The session of p is connected and has no authenticated identity.
Unauthenticated(p) == conn[p] # "none" /\ clientUserID[p] = NoIdentity

\* C28: a session without authenticated identity never calls PlaceBid: its
\* readPump is never inside PlaceBid and never holds a result of it, its
\* steps leave the store as it was, the only message it goes on to send is
\* an error envelope, and that send queues the envelope on the session's own
\* queue and nothing on any other queue.
C28_UnauthenticatedBidRejected ==
    [][\A p \in Procs :
          Unauthenticated(p)
             => /\ pc'[p] \in {"idle", "reply", "unregister", "exit"}
                /\ res'[p].op # "PlaceBid"
                /\ pc'[p] # pc[p] => store' = store
                /\ pc'[p] = "reply" => local'[p].msg = ErrorMsg
                /\ (pc[p] = "idle" /\ pc'[p] = "reply") => send' = send
                /\ (pc[p] = "reply" /\ pc'[p] # "reply")
                      => /\ send'[p].q = Append(send[p].q, ErrorMsg)
                         /\ \A c \in Procs \ {p} : send'[c] = send[c]]_vars

\* A session without identity has the error envelope in its queue while an
\* auction is listed and another session is subscribed to it.
C28_Witness ==
    \E p, c \in Procs :
       /\ p # c /\ Unauthenticated(p)
       /\ \E i \in 1..Len(send[p].q) : send[p].q[i] = ErrorMsg
       /\ Len(auctions) > 0
       /\ conn[c] = "open" /\ c \in Subscribers(1)

\* The hub receives the unregister signal of p in this step.
UnregisterReceived(p) ==
    pc[p] = "unregister" /\ local'[p] # local[p]

Terminated(p) == pc[p] = "exit" /\ writePump[p] = "exited"

\* C30: the cleanup of a dropped session is complete once its two tasks
\* have terminated (nothing else cleans up after them): the session is not
\* in the connected set, not among the subscribers of any auction, and its
\* outbound channel is closed.
C30_CleanupComplete ==
    \A p \in Procs :
       Terminated(p)
          => /\ p \notin clients
             /\ \A a \in HubAuctionIDs : p \notin Subscribers(a)
             /\ send[p].closed

\* The map ac without its empty entries.
WithoutEmptyEntries(ac) ==
    [a \in HubAuctionIDs |-> IF ac[a].members = {} THEN NoEntry ELSE ac[a]]

Transition(id, st) ==
    /\ id \in AuctionIDs
    /\ auctions[id].Status # st
    /\ auctions'[id].Status = st

\* Something is handed to the hub in this step: a publication to an
\* auction's subscribers starts, or any part of the hub or of a session
\* changes.
EventHanded ==
    \/ hubVars' # hubVars
    \/ \E p \in Procs : pc'[p] = "publish" /\ pc[p] # "publish"

\* C32: every successful transition hands a lifecycle event to the hub: the
\* step in which Finalize or the reaper makes an auction Completed or
\* Cancelled also hands something to the hub.
C32_TransitionEmitsEvent ==
    [][\A id \in 1..MaxAuctions :
          (\/ Transition(id, AuctionStatusCompleted)
           \/ Transition(id, AuctionStatusCancelled))
             => EventHanded]_vars

----------------------------------------------------------------------------
(* Properties of the store under concurrent calls *)

\* The bid rows of auction id among the rows bs.
BidsOf(bs, id) == SelectSeq(bs, LAMBDA b : b.AuctionID = id)

\* The call of PlaceBid by p for auction id is inside CreateBid.
BiddingOn(p, id) ==
    pc[p] \in {"bid_select", "bid_update"} /\ local[p].bid.AuctionID = id

\* C33: bids on different auctions are independent.  A step of a PlaceBid
\* on one auction leaves the row and the bids of every other auction as
\* they were; what the call reads to decide is the row of its own auction
\* only: the error it returns, the current bid it selects, and whether its
\* commit becomes the auction's current bid (the first bid committed on an
\* auction always does, whatever was bid on the other auction).
C33_BidsIndependent ==
    [][/\ \A b \in AuctionIDs :
             (auctions'[b] # auctions[b] \/ BidsOf(bids', b) # BidsOf(bids, b))
                => \E p \in Procs : BiddingOn(p, b) /\ pc'[p] = "done"
       /\ \A p \in Procs, a \in AuctionIDs :
             /\ (BiddingOn(p, a) /\ pc[p] = "bid_select"
                                /\ pc'[p] = "bid_update")
                   => local'[p].currentBid = auctions[a].CurrentBid
             /\ (BiddingOn(p, a) /\ pc'[p] = "done" /\ res'[p].out = OK
                                /\ auctions[a].CurrentBid = Null)
                   => /\ auctions'[a].CurrentBid = local[p].bid.Amount
                      /\ auctions'[a].CurrentBidderID = local[p].bid.BidderID
             /\ (pc[p] = "idle" /\ pc'[p] = "bid_select"
                                /\ local'[p].bid.AuctionID = a)
                   => PlaceBidError(auctions[a],
                                    [AuctionID |-> a,
                                     Amount |-> local'[p].bid.Amount,
                                     WalletID |-> local'[p].bid.WalletID],
                                    local'[p].bid.BidderID, now) = OK]_vars

\* A bid is committed on each of the two auctions, the later one while the
\* other auction already held its bid.
C33_Witness ==
    /\ Len(auctions) = 2 /\ Len(bids) = 2
    /\ bids[1].AuctionID # bids[2].AuctionID
    /\ auctions[1].CurrentBid # Null /\ auctions[2].CurrentBid # Null
    /\ auctions[1].CurrentBid # auctions[2].CurrentBid

----------------------------------------------------------------------------
(* Properties of ServeWs and of the channels of the sessions *)

\* C34: opening a session never panics on the identity of the request: a
\* request without identity is handled, and the identity that the
\* authentication middleware has stored is found.
C34_MissingIdentityHandled ==
    \A p \in Procs : pc[p] # "panic"

\* C35: no task sends on or closes the outbound channel of a session after
\* the channel has been closed: no send and no close ever panics.
C35_NoUseAfterClose ==
    panicked \notin {PanicSendOnClosed, PanicCloseOfClosed}

\* C36: every session among the subscribers of an auction is in the hub's
\* set of connected sessions and its outbound channel is open.
C36_SubscribersConnected ==
    \A a \in HubAuctionIDs :
       \A c \in Subscribers(a) : c \in clients /\ ~send[c].closed

----------------------------------------------------------------------------
(* Properties of the store in every reachable state *)

\* C37: a Cancelled auction has no accepted bid, or its current bid is below
\* its reserve price: an auction that holds a bid meeting the reserve, or any
\* bid when it has no reserve, is never Cancelled.
C37_CancelledHasNoWinningBid ==
    \A id \in AuctionIDs :
       auctions[id].Status = AuctionStatusCancelled
          => \/ AcceptedAmounts(id) = {} /\ auctions[id].CurrentBid = Null
             \/ ReserveUnmet(auctions[id])

\* The time checks of PlaceBid accept a bid on the Active auction id at
\* time t: some request is not rejected as not started or as ended.
TimeChecksAccept(id, t) ==
    \E req \in PlaceBidRequests, u \in Users :
       /\ req.AuctionID = id
       /\ PlaceBidError(auctions[id], req, u, t)
             \notin {ErrNotActive, ErrNotStarted, ErrEnded}

\* The time gate of Finalize is open for auction id at time t, buy-now
\* aside.
TimeGateOpen(id, t) ==
    \E u \in Users :
       FinalizeDecision([auctions[id] EXCEPT !.BuyNowPrice = Null], u, t)
          \notin {ErrNotActive, ErrNotEnded}

\* C38: the bidding window and the ended condition never overlap: for every
\* Active auction and every instant, the time checks of PlaceBid do not
\* accept a bid at an instant at which the reaper's selection of ended
\* auctions or the time gate of Finalize treats the auction as ended.
C38_WindowAndEndedDisjoint ==
    \A id \in AuctionIDs, t \in 0..MaxTime :
       auctions[id].Status = AuctionStatusActive
          => ~(/\ TimeChecksAccept(id, t)
               /\ (id \in EndedAuctions(t) \/ TimeGateOpen(id, t)))

\* C39: the current bid and the current bidder of an auction are both
\* absent or both present, and when present some committed accepted bid of
\* the auction has that amount and that bidder.
C39_CurrentBidConsistent ==
    \A id \in AuctionIDs :
       /\ auctions[id].CurrentBid = Null <=> auctions[id].CurrentBidderID = NoUser
       /\ auctions[id].CurrentBid # Null
             => \E i \in DOMAIN bids :
                   /\ bids[i].AuctionID = id /\ bids[i].Accepted
                   /\ bids[i].Amount = auctions[id].CurrentBid
                   /\ bids[i].BidderID = auctions[id].CurrentBidderID

\* Two bidders have committed bids of different amounts on the auction and
\* the auction holds a current bid.
C39_Witness ==
    \E id \in AuctionIDs :
       /\ auctions[id].CurrentBid # Null
       /\ \E i, j \in DOMAIN bids :
             /\ bids[i].AuctionID = id /\ bids[j].AuctionID = id
             /\ bids[i].BidderID # bids[j].BidderID
             /\ bids[i].Amount # bids[j].Amount

\* Task p takes a step of a PlaceBid call in this step.
PlaceBidStep(p) ==
    /\ pc'[p] # pc[p]
    /\ \/ pc'[p] \in {"bid_select", "bid_update"}
       \/ pc'[p] = "done" /\ res'[p].op = "PlaceBid"

\* C40: a PlaceBid that returns a failure leaves the store unchanged: the
\* only step of a PlaceBid call that changes the auctions, the NFTs or the
\* bids is the commit with which the call returns the bid.
C40_FailedBidChangesNothing ==
    [][\A p \in Procs :
          (PlaceBidStep(p) /\ ~(pc'[p] = "done" /\ res'[p].out = OK))
             => store' = store]_vars

\* A PlaceBid has failed inside the CreateBid transaction while the auction
\* holds the bid of another call, and another has failed a check.
C40_Witness ==
    \E p, q \in Procs :
       /\ p # q
       /\ pc[p] = "done" /\ res[p].op = "PlaceBid" /\ res[p].out = ErrStorage
       /\ pc[q] = "done" /\ res[q].op = "PlaceBid"
       /\ res[q].out \notin {OK, ErrStorage}
       /\ Len(bids) > 0
====
